---- MODULE Spec2Model ----
(***************************************************************************)
(* The market-data pipeline of update_dashboard.py:                        *)
(*   load_data -> compute_metrics -> compute_summary                       *)
(* Floats are exact rationals extended with nan, inf and -inf (IEEE 754),  *)
(* Python's None is its own value, and Vol_10, a square root, is kept as   *)
(* the rational under the root.                                            *)
(***************************************************************************)
EXTENDS Integers, Sequences, FiniteSets, TLC

VARIABLES files, tieOrder, pc, raw, metrics, summary, err

vars == <<files, tieOrder, pc, raw, metrics, summary, err>>

\* ------------------------------------------------------------- bounds
\* Longest price file (rows); MA_30 needs 30 rows, Vol_10 needs 11.
MaxLen == 31
\* Longest price file that shares DATA_DIR with a second file.
MaxPairLen == 11
\* The close price of the constant series.
FlatClose == 2

\* ------------------------------------------------------ program constants
MA10Window == 10
MA30Window == 30
Vol10Window == 10
TradingDays == 252
MinTotalLen == 2
Lookback5D == 6

\* ------------------------------------------------------------- floats
Abs(x) == IF x < 0 THEN -x ELSE x

RECURSIVE GCD(_, _)
GCD(a, b) == IF b = 0 THEN a ELSE GCD(b, a % b)

\* The float n/d, in lowest terms with a positive denominator.
Rat(n, d) ==
  LET g == GCD(Abs(n), Abs(d))
      s == IF d < 0 THEN -1 ELSE 1
  IN [k |-> "num", n |-> (s * n) \div g, d |-> (s * d) \div g]

Num(n) == [k |-> "num", n |-> n, d |-> 1]
NaN == [k |-> "nan", n |-> 0, d |-> 1]
PosInf == [k |-> "inf", n |-> 0, d |-> 1]
NegInf == [k |-> "ninf", n |-> 0, d |-> 1]
None == [k |-> "none", n |-> 0, d |-> 1]
\* sqrt(n/d), n/d >= 0
Sqrt(r) == [k |-> "sqrt", n |-> r.n, d |-> r.d]

IsNum(a) == a.k = "num"
IsZero(a) == a.k = "num" /\ a.n = 0
Sign(a) == IF a.k = "inf" THEN 1 ELSE IF a.k = "ninf" THEN -1
           ELSE IF a.n > 0 THEN 1 ELSE IF a.n < 0 THEN -1 ELSE 0
Signed(s) == IF s > 0 THEN PosInf ELSE NegInf

\* pd.notna / pd.isna: None and nan are missing, inf is not.
notna(a) == a.k \notin {"nan", "none"}

RAdd(a, b) == Rat(a.n * b.d + b.n * a.d, a.d * b.d)
RSub(a, b) == Rat(a.n * b.d - b.n * a.d, a.d * b.d)
RMul(a, b) == Rat(a.n * b.n, a.d * b.d)

\* IEEE division, as numpy does it on a float64 column: x/0 is +-inf, 0/0 is nan.
FDiv(a, b) ==
  IF a.k = "nan" \/ b.k = "nan" THEN NaN
  ELSE IF IsNum(a) /\ IsNum(b)
       THEN IF b.n = 0
            THEN (IF a.n = 0 THEN NaN ELSE Signed(a.n))
            ELSE Rat(a.n * b.d, a.d * b.n)
  ELSE IF ~IsNum(a) /\ ~IsNum(b) THEN NaN
  ELSE IF IsNum(a) THEN Num(0)
  ELSE Signed(Sign(a) * (IF b.n < 0 THEN -1 ELSE 1))

\* IEEE subtraction of a finite float.
FSubNum(a, b) == IF IsNum(a) THEN RSub(a, b) ELSE a

\* The function f on 1..n as a sequence, every element evaluated.
AsSeq(f) == SubSeq(f, 1, Len(f))

\* ------------------------------------------------------------- strings
\* A string is a sequence of characters; the alphabet of the column names.
Lowers == <<"a", "c", "d", "e", "i", "j", "k", "l", "n", "o", "p", "r", "s", "t", "v", "x">>
Uppers == <<"A", "C", "D", "E", "I", "J", "K", "L", "N", "O", "P", "R", "S", "T", "V", "X">>

IndexIn(c, s) == IF \E i \in 1..Len(s) : s[i] = c
                 THEN CHOOSE i \in 1..Len(s) : s[i] = c ELSE 0
IsLetter(c) == IndexIn(c, Lowers) > 0 \/ IndexIn(c, Uppers) > 0
ToLower(c) == IF IndexIn(c, Uppers) > 0 THEN Lowers[IndexIn(c, Uppers)] ELSE c
ToUpper(c) == IF IndexIn(c, Lowers) > 0 THEN Uppers[IndexIn(c, Lowers)] ELSE c

\* str.lower()
lower(s) == AsSeq([i \in 1..Len(s) |-> ToLower(s[i])])

\* str.strip(): leading and trailing whitespace removed.
RECURSIVE lstrip(_)
lstrip(s) == IF s # <<>> /\ Head(s) = " " THEN lstrip(Tail(s)) ELSE s
RECURSIVE rstrip(_)
rstrip(s) == IF s # <<>> /\ s[Len(s)] = " " THEN rstrip(SubSeq(s, 1, Len(s) - 1)) ELSE s
strip(s) == rstrip(lstrip(s))

\* str.title(): a letter is upper-cased after a non-letter, lower-cased after a letter.
title(s) ==
  AsSeq([i \in 1..Len(s) |->
           IF i > 1 /\ IsLetter(s[i - 1]) THEN ToLower(s[i]) ELSE ToUpper(s[i])])

\* str.endswith
endswith(s, suf) == Len(s) >= Len(suf) /\ SubSeq(s, Len(s) - Len(suf) + 1, Len(s)) = suf

ColDate == <<"D", "a", "t", "e">>
ColTicker == <<"T", "i", "c", "k", "e", "r">>
ColClose == <<"C", "l", "o", "s", "e">>
RequiredColumns == {ColDate, ColTicker, ColClose}
CsvSuffix == <<".", "c", "s", "v">>

\* --------------------------------------------------------------- cells
\* A CSV cell as read_csv hands it over: a number, a parseable date (its day
\* number), other text, or nothing.
NumCell(v) == [t |-> "num", v |-> v, s |-> ""]
DayCell(v) == [t |-> "day", v |-> v, s |-> ""]
TextCell(s) == [t |-> "text", v |-> 0, s |-> s]
EmptyCell == [t |-> "empty", v |-> 0, s |-> ""]

NaT == 0

\* pd.to_datetime(errors="coerce").dt.date: what does not parse is NaT.
to_date(c) == IF c.t = "day" THEN c.v ELSE NaT
\* pd.to_numeric(errors="coerce"): what does not parse is nan.
to_numeric(c) == IF c.t = "num" THEN Num(c.v) ELSE NaN
\* astype(str): a missing ticker becomes the string "nan".
to_str(c) == IF c.t = "empty" THEN "nan" ELSE c.s

\* --------------------------------------------------------------- sorting
\* Python's string order on the tickers of the inputs.
TickerOrder == <<"AAA", "BBB", "nan">>
TickerRank(t) == IndexIn(t, TickerOrder)

RECURSIVE Concat(_)
Concat(ss) == IF ss = <<>> THEN <<>> ELSE Head(ss) \o Concat(Tail(ss))

Reverse(s) == AsSeq([i \in 1..Len(s) |-> s[Len(s) + 1 - i]])

LessTickerDate(a, b) ==
  \/ TickerRank(a.Ticker) < TickerRank(b.Ticker)
  \/ a.Ticker = b.Ticker /\ a.Date < b.Date

LessDate(a, b) == a.Date < b.Date

\* sort_values: the rows in ascending key order. Rows of equal key keep their
\* order ("keep", what a stable sort gives) or come out reversed ("flip").
SortBy(rows, by, tie) ==
  LET len == Len(rows)
      Less(a, b) == IF by = "Date" THEN LessDate(a, b) ELSE LessTickerDate(a, b)
      Before(j, i) ==
        \/ Less(rows[j], rows[i])
        \/ /\ ~Less(rows[i], rows[j])
           /\ IF tie = "keep" THEN j < i ELSE j > i
      place == AsSeq([i \in 1..len |-> Cardinality({j \in 1..len : Before(j, i)}) + 1])
      at == AsSeq([p \in 1..len |-> CHOOSE i \in 1..len : place[i] = p])
  IN AsSeq([p \in 1..len |-> rows[at[p]]])

\* sort_values(["Ticker", "Date"]): a lexsort, stable.
SortTickerDate(rows) == SortBy(rows, "TickerDate", "keep")

\* sort_values("Date"): the default kind is quicksort, which is not stable: rows
\* of equal date come out in an order the numpy build decides.
TieOrders == {"keep", "flip"}
SortDate(rows, tie) == SortBy(rows, "Date", tie)

\* ------------------------------------------------------------- load_data
ColumnIndex(f, name) ==
  CHOOSE i \in 1..Len(f.columns) : title(strip(f.columns[i])) = name

IsCsv(f) == endswith(lower(f.fname), CsvSuffix)

\* HasRequired without the strip() of line 39.
HasRequiredNoStrip(f) ==
  RequiredColumns \subseteq {title(f.columns[i]) : i \in 1..Len(f.columns)}

HasRequired(f) ==
  RequiredColumns \subseteq {title(strip(f.columns[i])) : i \in 1..Len(f.columns)}

\* ReadFrame with dropna(subset=["Close"]) in place of line 45's
\* dropna(subset=["Date", "Close"]).
ReadFrameKeepNaT(f) ==
  IF ~IsCsv(f) \/ ~HasRequired(f) THEN <<>>
  ELSE LET di == ColumnIndex(f, ColDate)
           ti == ColumnIndex(f, ColTicker)
           ci == ColumnIndex(f, ColClose)
           df == AsSeq([i \in 1..Len(f.rows) |->
                          [Date |-> to_date(f.rows[i][di]),
                           Ticker |-> to_str(f.rows[i][ti]),
                           Close |-> to_numeric(f.rows[i][ci])]])
           kept == SelectSeq(df, LAMBDA r : notna(r.Close))
       IN SortTickerDate(kept)

\* One file of DATA_DIR: its frame, or nothing when it is skipped.
ReadFrame(f) ==
  IF ~IsCsv(f) \/ ~HasRequired(f) THEN <<>>
  ELSE LET di == ColumnIndex(f, ColDate)
           ti == ColumnIndex(f, ColTicker)
           ci == ColumnIndex(f, ColClose)
           df == AsSeq([i \in 1..Len(f.rows) |->
                          [Date |-> to_date(f.rows[i][di]),
                           Ticker |-> to_str(f.rows[i][ti]),
                           Close |-> to_numeric(f.rows[i][ci])]])
           kept == SelectSeq(df, LAMBDA r : r.Date # NaT /\ notna(r.Close))
       IN SortTickerDate(kept)

Frames(fs) == SelectSeq(fs, LAMBDA f : IsCsv(f) /\ HasRequired(f))

\* load_data(): the error raised ("" when none) and the table returned.
load_data(fs) ==
  IF Frames(fs) = <<>>
  THEN [err |-> "RuntimeError", table |-> <<>>]
  ELSE [err |-> "",
        table |-> SortTickerDate(Concat(AsSeq([i \in 1..Len(fs) |-> ReadFrame(fs[i])])))]

\* ------------------------------------------------------- compute_metrics
Max(a, b) == IF a > b THEN a ELSE b

\* The sum of the floats xs, by halves.
RECURSIVE RSum(_)
RSum(xs) ==
  IF Len(xs) = 0 THEN Num(0)
  ELSE IF Len(xs) = 1 THEN xs[1]
  ELSE LET half == Len(xs) \div 2
       IN RAdd(RSum(SubSeq(xs, 1, half)), RSum(SubSeq(xs, half + 1, Len(xs))))

\* The observations of the window of width w ending at i. Rolling._prep_values
\* turns inf into nan, and nan is no observation.
Observations(xs, i, w) == SelectSeq(SubSeq(xs, Max(1, i - w + 1), i), IsNum)

\* RollingMean with min_periods=1.
RollingMeanMin1(xs, i, w) ==
  LET obs == Observations(xs, i, w)
  IN IF Len(obs) < 1 THEN NaN ELSE RMul(RSum(obs), Rat(1, Len(obs)))

\* rolling(window=w).mean(): min_periods defaults to the window.
RollingMean(xs, i, w) ==
  LET obs == Observations(xs, i, w)
  IN IF Len(obs) < w THEN NaN ELSE RMul(RSum(obs), Rat(1, Len(obs)))

\* The sample variance (ddof = 1).
Variance(obs) ==
  LET N == Len(obs)
      s == RSum(obs)
      sq == RSum(AsSeq([i \in 1..N |-> RMul(obs[i], obs[i])]))
  IN RMul(RSub(sq, RMul(RMul(s, s), Rat(1, N))), Rat(1, N - 1))

\* RollingStd with min_periods one short of the window.
RollingStdShort(xs, i, w) ==
  LET obs == Observations(xs, i, w)
  IN IF Len(obs) < w - 1 THEN NaN ELSE Sqrt(Variance(obs))

\* rolling(window=w).std()
RollingStd(xs, i, w) ==
  LET obs == Observations(xs, i, w)
  IN IF Len(obs) < w THEN NaN ELSE Sqrt(Variance(obs))

\* std * (252 ** 0.5)
Annualize(v) ==
  IF v.k = "sqrt" THEN Sqrt(RMul(Rat(v.n, v.d), Num(TradingDays))) ELSE v

\* pct_change with the quotient inverted.
pct_change_inverted(close) ==
  AsSeq([i \in 1..Len(close) |->
           IF i = 1 THEN NaN ELSE FSubNum(FDiv(close[i - 1], close[i]), Num(1))])

\* Series.pct_change(): the value over the one before it, less one.
pct_change(close) ==
  AsSeq([i \in 1..Len(close) |->
           IF i = 1 THEN NaN ELSE FSubNum(FDiv(close[i], close[i - 1]), Num(1))])

\* groupby("Ticker"): the keys in sorted order, each group's rows in table order.
GroupKeys(rows) ==
  SelectSeq(TickerOrder, LAMBDA t : \E i \in 1..Len(rows) : rows[i].Ticker = t)
Group(rows, t) == SelectSeq(rows, LAMBDA r : r.Ticker = t)

\* The body of compute_metrics' loop for one ticker's rows.
MetricsPart(g0, tie) ==
  LET g == SelectSeq(SortDate(g0, tie), LAMBDA r : notna(r.Close))
      close == AsSeq([i \in 1..Len(g) |-> g[i].Close])
      pct == pct_change(close)
  IN AsSeq([i \in 1..Len(g) |->
              [Date |-> g[i].Date, Ticker |-> g[i].Ticker, Close |-> g[i].Close,
               Pct_Change |-> pct[i],
               MA_10 |-> RollingMean(close, i, MA10Window),
               MA_30 |-> RollingMean(close, i, MA30Window),
               Vol_10 |-> Annualize(RollingStd(pct, i, Vol10Window))]])

compute_metrics(prices, tie) ==
  LET keys == GroupKeys(prices)
  IN Concat(AsSeq([j \in 1..Len(keys) |-> MetricsPart(Group(prices, keys[j]), tie)]))

\* ------------------------------------------------------- compute_summary
\* Python's float division: a zero divisor raises, None is no operand.
PyDivError(a, b) ==
  IF a.k = "none" THEN "TypeError"
  ELSE IF IsZero(b) THEN "ZeroDivisionError" ELSE ""

\* `x not in (None, 0)`
NotNoneOrZero(x) == x.k # "none" /\ ~IsZero(x)

LastDefined(xs) ==
  LET ok == SelectSeq(xs, notna)
  IN IF ok = <<>> THEN None ELSE ok[Len(ok)]

\* last_close (line 85)
LastClose(g) == IF notna(g[Len(g)].Close) THEN g[Len(g)].Close ELSE None

\* TakesTotal with `len(g) >= 1`.
TakesTotalOne(g) ==
  Len(g) >= 1 /\ NotNoneOrZero(g[1].Close) /\ ~IsZero(g[1].Close)

\* The guard of line 86 and the `if first_close` of line 88.
TakesTotal(g) ==
  Len(g) >= MinTotalLen /\ NotNoneOrZero(g[1].Close) /\ ~IsZero(g[1].Close)

\* total_ret (lines 86-90): the error raised ("" when none), and the value.
TotalError(g) ==
  IF TakesTotal(g) THEN PyDivError(LastClose(g), g[1].Close) ELSE ""
TotalReturn(g) ==
  IF TakesTotal(g) /\ TotalError(g) = ""
  THEN FSubNum(FDiv(LastClose(g), g[1].Close), Num(1)) ELSE None

\* The guard of line 91.
Takes5D(g) == Len(g) >= Lookback5D /\ notna(g[Len(g) + 1 - Lookback5D].Close)

\* ret_5d (lines 91-94): the error raised ("" when none), and the value.
Return5DError(g) ==
  IF Takes5D(g) THEN PyDivError(LastClose(g), g[Len(g) + 1 - Lookback5D].Close) ELSE ""
Return5D(g) ==
  IF Takes5D(g) /\ Return5DError(g) = ""
  THEN FSubNum(FDiv(LastClose(g), g[Len(g) + 1 - Lookback5D].Close), Num(1)) ELSE None

\* The body of compute_summary's loop for one ticker's metric rows: the error it
\* raises ("" when none) and the row it appends.
SummaryPart(g0, tie) ==
  LET g == SortDate(g0, tie)
  IN [err |-> IF TotalError(g) # "" THEN TotalError(g) ELSE Return5DError(g),
      row |-> [Ticker |-> g[1].Ticker, Total_Return |-> TotalReturn(g),
               Return_5D |-> Return5D(g),
               Vol_10 |-> LastDefined(AsSeq([i \in 1..Len(g) |-> g[i].Vol_10])),
               Last_Close |-> LastClose(g)]]

\* compute_summary(): the first error raised ("" when none) and the rows.
compute_summary(m, tie) ==
  LET keys == GroupKeys(m)
      parts == AsSeq([j \in 1..Len(keys) |-> SummaryPart(Group(m, keys[j]), tie)])
      bad == SelectSeq(parts, LAMBDA p : p.err # "")
  IN IF bad # <<>> THEN [err |-> bad[1].err, rows |-> <<>>]
     ELSE [err |-> "", rows |-> AsSeq([j \in 1..Len(keys) |-> parts[j].row])]

\* ---------------------------------------------------------------- inputs
\* Headers: the canonical one; one in another case, padded and in another
\* column order; and three that lack a required column after normalization.
HdrPlain == [columns |-> <<ColDate, ColTicker, ColClose>>, order |-> <<1, 2, 3>>]
HdrMessy == [columns |-> << <<"c", "L", "o", "S", "e", " ">>,
                            <<" ", "d", "a", "t", "e">>,
                            <<"T", "I", "C", "K", "E", "R">> >>,
             order |-> <<3, 1, 2>>]
HdrOpen == [columns |-> <<ColDate, ColTicker, <<"O", "p", "e", "n">> >>,
            order |-> <<1, 2, 3>>]
HdrAdjClose == [columns |-> <<ColDate, ColTicker,
                              <<"A", "d", "j", " ", "C", "l", "o", "s", "e">> >>,
                order |-> <<1, 2, 3>>]
HdrSplit == [columns |-> << <<"D", "a", "t", " ", "e">>, ColTicker, ColClose>>,
             order |-> <<1, 2, 3>>]
Headers == {HdrPlain, HdrMessy, HdrOpen, HdrAdjClose, HdrSplit}

NameCsv == <<"a", ".", "c", "s", "v">>
NameUpper == <<"A", ".", "C", "S", "V">>
NameTxt == <<"a", ".", "t", "x", "t">>

\* A file of DATA_DIR holding the observations obs (each <<date, ticker, close>>)
\* under header h.
File(fname, h, obs) ==
  [fname |-> fname, columns |-> h.columns,
   rows |-> AsSeq([i \in 1..Len(obs) |-> AsSeq([j \in 1..3 |-> obs[i][h.order[j]]])])]

Wave == <<1, 2, 4, 2>>
Patterns == {"flat", "wave", "newestFirst", "zeroFirst", "zeroBack", "hole"}

\* The close of day i of an n-day file.
PatClose(pat, i, n) ==
  IF pat = "flat" THEN NumCell(FlatClose)
  ELSE IF pat = "zeroFirst" /\ i = 1 THEN NumCell(0)
  ELSE IF pat = "zeroBack" /\ i = n + 1 - Lookback5D THEN NumCell(0)
  ELSE IF pat = "hole" /\ i = 2 THEN TextCell("n/a")
  ELSE NumCell(Wave[(i % 4) + 1])

\* A fetched price file: one ticker, days 1..n, oldest first unless the pattern
\* says otherwise.
LongFile(n, pat) ==
  LET obs == AsSeq([i \in 1..n |-> <<DayCell(i), TextCell("AAA"), PatClose(pat, i, n)>>])
  IN File(NameCsv, HdrPlain, IF pat = "newestFirst" THEN Reverse(obs) ELSE obs)

\* The observations of a small file: a day the fetched file has too, a day
\* repeated within the file, rows that are all dropped, a missing ticker.
ShortObs ==
  { << <<DayCell(1), TextCell("AAA"), NumCell(4)>> >>,
    << <<DayCell(2), TextCell("AAA"), NumCell(0)>>,
       <<DayCell(1), TextCell("AAA"), NumCell(4)>> >>,
    << <<DayCell(1), TextCell("BBB"), NumCell(4)>>,
       <<DayCell(1), TextCell("BBB"), NumCell(1)>> >>,
    << <<TextCell("soon"), TextCell("BBB"), NumCell(4)>>,
       <<DayCell(2), TextCell("BBB"), EmptyCell>> >>,
    << <<DayCell(1), EmptyCell, NumCell(1)>> >> }

ShortFiles ==
  {File(NameCsv, h, obs) : h \in Headers, obs \in ShortObs}
  \cup {File(nm, HdrPlain, <<<<DayCell(1), TextCell("BBB"), NumCell(4)>>>>) :
          nm \in {NameUpper, NameTxt}}

\* The small files that share DATA_DIR with a fetched file.
PairedFiles == {File(NameCsv, h, obs) : h \in {HdrPlain, HdrOpen}, obs \in ShortObs}

\* os.listdir(DATA_DIR), in the order the file system gives: no file, one
\* file, or two in either order.
IsListing(fs) ==
  \/ fs = <<>>
  \/ \E n \in 0..MaxLen, pat \in Patterns : fs = <<LongFile(n, pat)>>
  \/ \E s \in ShortFiles : fs = <<s>>
  \/ \E n \in 0..MaxPairLen, pat \in Patterns, s \in PairedFiles :
       \/ fs = <<LongFile(n, pat), s>>
       \/ fs = <<s, LongFile(n, pat)>>
  \/ \E s \in ShortFiles, t \in ShortFiles : fs = <<s, t>>

\* ------------------------------------------------------------- the run
Init ==
  /\ IsListing(files)
  /\ tieOrder \in TieOrders
  /\ pc = "start"
  /\ raw = <<>>
  /\ metrics = <<>>
  /\ summary = <<>>
  /\ err = ""

\* main(): raw = load_data()
LoadData ==
  /\ pc = "start"
  /\ LET r == load_data(files)
     IN \/ /\ r.err # ""
           /\ pc' = "failed"
           /\ err' = r.err
           /\ raw' = raw
        \/ /\ r.err = ""
           /\ pc' = "loaded"
           /\ raw' = r.table
           /\ err' = err
  /\ UNCHANGED <<files, tieOrder, metrics, summary>>

\* main(): metrics = compute_metrics(raw)
ComputeMetrics ==
  /\ pc = "loaded"
  /\ metrics' = compute_metrics(raw, tieOrder)
  /\ pc' = "metrics"
  /\ UNCHANGED <<files, tieOrder, raw, summary, err>>

\* main(): summary = compute_summary(metrics)
ComputeSummary ==
  /\ pc = "metrics"
  /\ LET r == compute_summary(metrics, tieOrder)
     IN \/ /\ r.err # ""
           /\ pc' = "failed"
           /\ err' = r.err
           /\ summary' = summary
        \/ /\ r.err = ""
           /\ pc' = "done"
           /\ summary' = r.rows
           /\ err' = err
  /\ UNCHANGED <<files, tieOrder, raw, metrics>>

Next == LoadData \/ ComputeMetrics \/ ComputeSummary

Spec == Init /\ [][Next]_vars

\* ===================================================================
\* Properties
\* ===================================================================
Undefined(v) == v.k \in {"nan", "none"}

TickersOf(rows) == {rows[i].Ticker : i \in 1..Len(rows)}

\* v = a/b - 1 for finite a and b # 0, by cross-multiplication.
IsRatioLessOne(v, a, b) ==
  v.k = "num" /\ (v.n + v.d) * b.n * a.d = a.n * v.d * b.d

\* v is what IEEE arithmetic gives for a/b - 1, a and b finite.
IsReturn(v, a, b) ==
  IF b.n # 0 THEN IsRatioLessOne(v, a, b)
  ELSE IF a.n > 0 THEN v = PosInf ELSE IF a.n < 0 THEN v = NegInf ELSE v = NaN

\* Column name c is `name` up to case and surrounding blanks.
Matches(c, name) ==
  \E a \in 0..Len(c) :
    /\ a + Len(name) <= Len(c)
    /\ \A j \in 1..Len(c) :
         IF j <= a \/ j > a + Len(name) THEN c[j] = " "
         ELSE ToLower(c[j]) = ToLower(name[j - a])

\* File f is a CSV source with the three required columns.
ValidSource(f) ==
  /\ IsCsv(f)
  /\ \A name \in RequiredColumns : \E i \in 1..Len(f.columns) : Matches(f.columns[i], name)

CellOf(f, row, name) ==
  row[CHOOSE i \in 1..Len(f.columns) : Matches(f.columns[i], name)]

\* The tickers the valid sources name, and those with an observation that has
\* a parseable date and a numeric close.
InputTickers ==
  UNION {{to_str(CellOf(files[k], files[k].rows[i], ColTicker)) : i \in 1..Len(files[k].rows)} :
           k \in {k \in 1..Len(files) : ValidSource(files[k])}}

HasObservation(tk) ==
  \E k \in 1..Len(files) :
    /\ ValidSource(files[k])
    /\ \E i \in 1..Len(files[k].rows) :
         /\ to_str(CellOf(files[k], files[k].rows[i], ColTicker)) = tk
         /\ CellOf(files[k], files[k].rows[i], ColDate).t = "day"
         /\ CellOf(files[k], files[k].rows[i], ColClose).t = "num"

\* compute_summary has acted on the metrics (it returned, or it raised).
SummaryRan == pc = "done" \/ (pc = "failed" /\ err # "RuntimeError")
MetricsRan == pc = "metrics" \/ SummaryRan

\* C1: load_data raises the fatal no-valid-input error, and returns no table,
\* exactly when no CSV source has the columns Date, Ticker and Close up to case
\* and surrounding blanks.
C1_NoValidInput ==
  pc # "start" =>
    ((pc = "failed" /\ err = "RuntimeError" /\ raw = <<>>)
       <=> ~ \E k \in 1..Len(files) : ValidSource(files[k]))

C1_Witness ==
  /\ pc = "failed" /\ err = "RuntimeError"
  /\ Len(files) = 2
  /\ \A k \in 1..2 : IsCsv(files[k]) /\ files[k].rows # <<>>

\* C2: in every ticker's metric rows, which are the ticker's observations in
\* date order, Pct_Change is undefined at position 0 and Close[i]/Close[i-1] - 1
\* at every later position.
C2_PctChange ==
  MetricsRan =>
    \A t \in TickersOf(raw) \cup TickersOf(metrics) :
      LET g == Group(metrics, t)
          obs == Group(raw, t)
      IN /\ Len(g) = Len(obs)
         /\ \A r \in {obs[i] : i \in 1..Len(obs)} :
              Cardinality({i \in 1..Len(g) : g[i].Date = r.Date /\ g[i].Close = r.Close})
                = Cardinality({i \in 1..Len(obs) : obs[i] = r})
         /\ \A i \in 1..Len(g) :
              IF i = 1 THEN Undefined(g[i].Pct_Change)
              ELSE /\ g[i - 1].Date <= g[i].Date
                   /\ IsReturn(g[i].Pct_Change, g[i].Close, g[i - 1].Close)

C2_Witness ==
  /\ pc = "metrics"
  /\ Len(files) = 1 /\ Len(files[1].rows) = 3 /\ files[1].rows[1][1] = DayCell(3)
  /\ Len(metrics) = 3
  /\ metrics[2].Pct_Change = Num(1)
  /\ metrics[3].Pct_Change = Rat(-1, 2)

\* C3: a ticker with fewer than 10 metric rows has MA_10 and Vol_10 undefined
\* in all of them, one with fewer than 30 has MA_30 undefined in all of them,
\* and compute_metrics returns without an error.
C3_WarmUp ==
  /\ pc = "metrics" => err = ""
  /\ MetricsRan =>
       \A t \in TickersOf(metrics) :
         LET g == Group(metrics, t)
         IN /\ Len(g) < MA10Window =>
                 \A i \in 1..Len(g) : Undefined(g[i].MA_10) /\ Undefined(g[i].Vol_10)
            /\ Len(g) < MA30Window =>
                 \A i \in 1..Len(g) : Undefined(g[i].MA_30)

C3_Witness ==
  /\ pc = "metrics"
  /\ Len(metrics) = MA30Window - 1
  /\ metrics[Len(metrics)].MA_10.k = "num"
  /\ metrics[Len(metrics)].Vol_10.k = "sqrt"
  /\ Undefined(metrics[Len(metrics)].MA_30)

\* A ticker's rows are exactly n observations of one positive close.
IsConstantSeries(g, len) ==
  /\ Len(g) = len
  /\ IsNum(g[1].Close) /\ Sign(g[1].Close) > 0
  /\ \A i \in 1..len : g[i].Close = g[1].Close

\* C4 as stated: a ticker with exactly 10 observations of one positive close c
\* has MA_10 = c and Vol_10 = 0 at index 9.
C4_Original ==
  MetricsRan =>
    \A t \in TickersOf(metrics) :
      LET g == Group(metrics, t)
      IN IsConstantSeries(g, MA10Window) =>
           /\ g[MA10Window].MA_10 = g[1].Close
           /\ g[MA10Window].Vol_10 = Sqrt(Num(0))

\* C4 as amended: a ticker with exactly 10 observations of one positive close c
\* has MA_10 = c at index 9 and Vol_10 undefined there: the window of Vol_10
\* then holds Pct_Change[0], which is undefined.
C4_Amended ==
  MetricsRan =>
    \A t \in TickersOf(metrics) :
      LET g == Group(metrics, t)
      IN IsConstantSeries(g, MA10Window) =>
           /\ g[MA10Window].MA_10 = g[1].Close
           /\ Undefined(g[MA10Window].Vol_10)
           /\ \A i \in 2..MA10Window : g[i].Pct_Change = Num(0)

C4_Witness ==
  /\ pc = "metrics"
  /\ IsConstantSeries(metrics, MA10Window)
  /\ metrics[MA10Window].MA_10 = Num(FlatClose)

\* The rows of g with the earliest and with the latest date.
Earliest(g) == {r \in {g[i] : i \in 1..Len(g)} : \A i \in 1..Len(g) : r.Date <= g[i].Date}
Latest(g) == {r \in {g[i] : i \in 1..Len(g)} : \A i \in 1..Len(g) : r.Date >= g[i].Date}

\* C5: in the summary, a ticker's Total_Return is undefined when it has fewer
\* than 2 metric rows or its first close is zero or undefined, and is
\* last_close/first_close - 1 otherwise, first and last in date order.
C5_TotalReturn ==
  pc = "done" =>
    \A t \in TickersOf(metrics) :
      LET g == Group(metrics, t)
      IN \E j \in 1..Len(summary) :
           /\ summary[j].Ticker = t
           /\ \E f \in Earliest(g), l \in Latest(g) :
                IF Len(g) < 2 \/ Undefined(f.Close) \/ IsZero(f.Close)
                THEN Undefined(summary[j].Total_Return)
                ELSE IsRatioLessOne(summary[j].Total_Return, l.Close, f.Close)

C5_Witness ==
  /\ pc = "done"
  /\ Len(summary) = 2
  /\ Len(Group(metrics, summary[1].Ticker)) >= 2
  /\ IsZero(metrics[1].Close)
  /\ summary[1].Total_Return = None
  /\ summary[2].Total_Return = Rat(-3, 4)

\* C6: once compute_summary has run, every ticker with n metric rows has a
\* summary row whose Return_5D is last_close/close[n-6] - 1 when n >= 6 and
\* close[n-6] is defined, and undefined otherwise.
C6_Return5D ==
  SummaryRan =>
    \A t \in TickersOf(metrics) :
      LET g == Group(metrics, t)
          n == Len(g)
      IN \E j \in 1..Len(summary) :
           /\ summary[j].Ticker = t
           /\ IF n >= 6 /\ ~Undefined(g[n - 5].Close)
              THEN \E l \in Latest(g) : IsReturn(summary[j].Return_5D, l.Close, g[n - 5].Close)
              ELSE Undefined(summary[j].Return_5D)

\* C7: compute_metrics and compute_summary never raise on a table load_data
\* returned.
C7_NeverRaises == ~(pc = "failed" /\ err # "RuntimeError")

\* C8: in the table load_data returns, a ticker's dates are strictly increasing
\* (so unique) and every Close is a number.
C8_StrictDates ==
  pc = "loaded" =>
    /\ \A i \in 1..Len(raw) : IsNum(raw[i].Close) /\ raw[i].Date # NaT
    /\ \A i \in 1..Len(raw), j \in 1..Len(raw) :
         (i < j /\ raw[i].Ticker = raw[j].Ticker) => raw[i].Date < raw[j].Date

\* C9: listing the sources in another order changes no ticker's metric rows
\* and no ticker's summary row.
C9_OrderIndependence ==
  LET other == load_data(Reverse(files))
      m == compute_metrics(other.table, tieOrder)
  IN /\ MetricsRan =>
          \A t \in TickersOf(metrics) \cup TickersOf(m) : Group(m, t) = Group(metrics, t)
     /\ pc = "done" =>
          LET s == compute_summary(m, tieOrder)
          IN /\ s.err = ""
             /\ \A t \in TickersOf(summary) \cup TickersOf(s.rows) :
                  Group(s.rows, t) = Group(summary, t)

AllUndefined(row) ==
  /\ Undefined(row.Total_Return) /\ Undefined(row.Return_5D)
  /\ Undefined(row.Vol_10) /\ Undefined(row.Last_Close)

====
